---- MODULE Spec2Model ----
(***************************************************************************)
(* Model of brooktool's main.go: the orchestrator (main), the PAC HTTP     *)
(* server goroutine, the fsnotify watcher goroutine, the brook client      *)
(* supervising goroutine, and their environment (file writes, signals,     *)
(* the external brook commands).                                           *)
(***************************************************************************)
EXTENDS Integers, Sequences, FiniteSets, TLC

\* ---- bounds of the environment ----
MaxWrites == 3      \* file writes the environment performs
MaxWatchErrs == 1   \* errors pending on pacWatcher.Errors at a time

\* capacities of brookCh (line 271) and sigCh (line 291)
BrookChCap == 1
SigChCap == 1

\* contents the PAC file can have
Blobs == {"b0", "b1"}

VARIABLES
  proc,          \* "running" | "fatal" | "killed" | "done": the OS process
  mainPc,        \* position of main()
  err,           \* main's outer variable err (lines 184, 221)
  fileData,      \* contents of pacLocalPath
  pacData,       \* ph.pacData
  hmu,           \* ph.mu: "free" or its holder
  lsOpen,        \* "none" | "open" | "closed": the listener ls
  serverPc,      \* HTTP server goroutine: "notStarted" | "serving" | "stopped"
  cancelled,     \* ctx.Done() is closed
  closed,        \* the shutdown flag `closed`
  closeMu,       \* closeMu: "free" or its holder
  watching,      \* pacWatcher.Add succeeded
  events,        \* pacWatcher.Events (with the kernel queue behind it)
  watchErrs,     \* pending values of pacWatcher.Errors
  watcherPc,     \* position of the watcher goroutine
  wData,         \* the watcher's local `data` inside ph.reload
  wErr,          \* the watcher's local `err` of the reapply (line 251)
  req,           \* the HTTP request being served by ph.ServeHTTP
  brookPc,       \* position of the brook client goroutine
  child,         \* "NotStarted" | "Starting" | "Running" | "Exited"
  childResult,   \* what brookCmd.Wait() returns
  brookCh,       \* the channel brookCh (capacity 1)
  sigCh,         \* the channel sigCh (capacity 1)
  sigNotify,     \* signal.Notify has been called
  out,           \* main's buffer `out`
  hist           \* history of what has happened, for the properties

vars == <<proc, mainPc, err, fileData, pacData, hmu, lsOpen, serverPc,
          cancelled, closed, closeMu, watching, events, watchErrs,
          watcherPc, wData, wErr, req, brookPc, child, childResult, brookCh, sigCh,
          sigNotify, out, hist>>


\* no request is being served
\* fresh: the values ph.pacData has held since the request arrived
NoRequest ==
  [pc |-> "idle", uri |-> <<>>, data |-> "none", status |-> 0, body |-> "none",
   fresh |-> {}]

\* request-targets as net/http hands them to the handler in r.RequestURI,
\* character by character: "/pac", "/pac?t=1", "/pa", "/x/pac" (origin-form)
\* and "http://h/pac" (absolute-form)
Targets ==
  { <<"/", "p", "a", "c">>,
    <<"/", "p", "a", "c", "?", "t", "=", "1">>,
    <<"/", "p", "a">>,
    <<"/", "x", "/", "p", "a", "c">>,
    <<"h", "t", "t", "p", ":", "/", "/", "h", "/", "p", "a", "c">> }

PacPrefix == <<"/", "p", "a", "c">>

\* strings.HasPrefix(s, prefix)
HasPrefix(s, prefix) ==
  /\ Len(prefix) <= Len(s)
  /\ \A i \in 1..Len(prefix) : s[i] = prefix[i]

\* the first position >= from where c occurs in s, Len(s) + 1 if there is none
IndexFrom(s, c, from) ==
  IF \E i \in from..Len(s) : s[i] = c
  THEN CHOOSE i \in from..Len(s) : s[i] = c /\ \A j \in from..(i - 1) : s[j] # c
  ELSE Len(s) + 1

\* r.URL.Path as net/http parses it from the request-target: the query is
\* cut off, and the scheme and authority of an absolute-form target
PathOf(target) ==
  LET start == IF target # <<>> /\ target[1] = "/"
               THEN 1
               ELSE IndexFrom(target, "/", IndexFrom(target, ":", 1) + 3)
      stop  == IndexFrom(target, "?", start)
  IN SubSeq(target, start, stop - 1)

InitHist ==
  [ enableInvoked  |-> 0,      \* calls of enableSystemProxy
    startupEnable  |-> [started |-> FALSE, printed |-> FALSE, res |-> "none"],
                               \* outcome of the call on line 211
    disableInvoked |-> 0,      \* brookCmd.Start() calls on line 318
    reloadCycles   |-> 0,      \* calls of ph.reload by the watcher
    replaces       |-> 0,      \* stores to ph.pacData by the watcher
    lastRead       |-> "none", \* what the watcher's latest ReadFile returned
    lateCycle      |-> FALSE,  \* the cycle in progress began after cancel()
    sawClosed      |-> FALSE,  \* the watcher found closed true and returned
    writes         |-> 0,      \* write events raised
    debounces      |-> 0,      \* sleeps of the watcher
    burst          |-> TRUE,   \* every write after the first was raised in the first sleep
    sends          |-> 0,      \* sends on brookCh
    sentVal        |-> "none", \* the value sent on brookCh
    startFailed    |-> FALSE,  \* brookCmd.Start() of the client failed
    wake           |-> "none", \* which case of main's select fired
    childAtSignal  |-> "none", \* whether the client was running when the signal case fired
    gateUnderLock  |-> "none", \* "yes"/"no": closed was set holding closeMu
    gotBrook       |-> FALSE,  \* main has received from brookCh
    logged         |-> <<>>,   \* the "Brook occurs an error" log line
    order          |-> <<>>,   \* teardown steps in the order performed
    exitAt         |-> "none"  \* where the process ended
  ]

Init ==
  /\ proc = "running"
  /\ mainPc = "listen"
  /\ err = "nil"
  /\ fileData \in Blobs
  /\ pacData = "empty"
  /\ hmu = "free"
  /\ lsOpen = "none"
  /\ serverPc = "notStarted"
  /\ cancelled = FALSE
  /\ closed = FALSE
  /\ closeMu = "free"
  /\ watching = FALSE
  /\ events = <<>>
  /\ watchErrs = 0
  /\ watcherPc = "notStarted"
  /\ wData = "empty"
  /\ wErr = "none"
  /\ req = NoRequest
  /\ brookPc = "notStarted"
  /\ child = "NotStarted"
  /\ childResult = "none"
  /\ brookCh = <<>>
  /\ sigCh = <<>>
  /\ sigNotify = FALSE
  /\ out = ""
  /\ hist = InitHist

\* log.Fatal / log.Fatalf: os.Exit(1), nothing deferred runs; h is the
\* history up to the call
Fatal(h, where) ==
  /\ proc' = "fatal"
  /\ hist' = [h EXCEPT !.exitAt = where]

\* enableSystemProxy (lines 110-123): started = Start() succeeded,
\* printed = the command prints diagnostics, seen = out.Len() observes them
\* (the buffer is filled by the copying goroutine, the read is unsynchronised)
enableSystemProxy(started, printed, seen) ==
  IF ~started THEN "startErr"
  ELSE IF printed /\ seen THEN "outputErr"
  ELSE "nil"

Running == proc = "running"

\* ---------------------------------------------------------------------
\* main()
\* ---------------------------------------------------------------------

\* line 184: ls, err := net.Listen(...)
MainListen ==
  /\ Running /\ mainPc = "listen"
  /\ \E ok \in BOOLEAN :
       IF ok
       THEN /\ err' = "nil" /\ lsOpen' = "open" /\ mainPc' = "reload"
            /\ UNCHANGED <<proc, hist>>
       ELSE /\ err' = "listenErr" /\ Fatal(hist, "listen")
            /\ UNCHANGED <<lsOpen, mainPc>>
  /\ UNCHANGED <<fileData, pacData, hmu, serverPc, cancelled, closed, closeMu,
                 watching, events, watchErrs, watcherPc, wData, wErr, req, brookPc, child,
                 childResult, brookCh, sigCh, sigNotify, out>>

\* lines 190-194: ph := &pacHandler{}; ph.reload() (no other goroutine yet)
MainInitReload ==
  /\ Running /\ mainPc = "reload"
  /\ \E readOk \in BOOLEAN :
       IF readOk
       THEN /\ pacData' = fileData /\ mainPc' = "go_server"
            /\ UNCHANGED <<proc, hist>>
       ELSE /\ Fatal(hist, "reload")
            /\ UNCHANGED <<pacData, mainPc>>
  /\ UNCHANGED <<err, fileData, hmu, lsOpen, serverPc, cancelled, closed, closeMu,
                 watching, events, watchErrs, watcherPc, wData, wErr, req, brookPc, child,
                 childResult, brookCh, sigCh, sigNotify, out>>

\* lines 196-207: go func(ls) { ... server.Serve(ls) ... }(ls); out := ...
MainGoServer ==
  /\ Running /\ mainPc = "go_server"
  /\ serverPc' = "serving"
  /\ out' = ""
  /\ mainPc' = "enable"
  /\ UNCHANGED <<proc, err, fileData, pacData, hmu, lsOpen, cancelled, closed,
                 closeMu, watching, events, watchErrs, watcherPc, wData, wErr, req, brookPc,
                 child, childResult, brookCh, sigCh, sigNotify, hist>>

\* lines 209-214: enableSystemProxy(...); an error is fatal
MainEnable ==
  /\ Running /\ mainPc = "enable"
  /\ \E started \in BOOLEAN, printed \in BOOLEAN, seen \in BOOLEAN :
       LET r == enableSystemProxy(started, printed, seen)
           h == [hist EXCEPT !.enableInvoked = @ + 1,
                             !.startupEnable =
                                [started |-> started, printed |-> printed, res |-> r]]
       IN IF r = "nil"
          THEN /\ mainPc' = "new_watcher" /\ hist' = h /\ UNCHANGED proc
          ELSE /\ Fatal(h, "enable") /\ UNCHANGED mainPc
  /\ UNCHANGED <<err, fileData, pacData, hmu, lsOpen, serverPc, cancelled, closed,
                 closeMu, watching, events, watchErrs, watcherPc, wData, wErr, req, brookPc,
                 child, childResult, brookCh, sigCh, sigNotify, out>>

\* lines 216-226: ctx, cancel := ...; closed := false; fsnotify.NewWatcher()
MainNewWatcher ==
  /\ Running /\ mainPc = "new_watcher"
  /\ cancelled' = FALSE
  /\ closed' = FALSE
  /\ \E ok \in BOOLEAN :
       IF ok
       THEN /\ err' = "nil" /\ mainPc' = "go_watcher" /\ UNCHANGED <<proc, hist>>
       ELSE /\ err' = "watcherErr" /\ Fatal(hist, "new_watcher") /\ UNCHANGED mainPc
  /\ UNCHANGED <<fileData, pacData, hmu, lsOpen, serverPc, closeMu, watching,
                 events, watchErrs, watcherPc, wData, wErr, req, brookPc, child, childResult,
                 brookCh, sigCh, sigNotify, out>>

\* line 228: go func() { for { select ... } }()
MainGoWatcher ==
  /\ Running /\ mainPc = "go_watcher"
  /\ watcherPc' = "select"
  /\ mainPc' = "add_watch"
  /\ UNCHANGED <<proc, err, fileData, pacData, hmu, lsOpen, serverPc, cancelled,
                 closed, closeMu, watching, events, watchErrs, wData, wErr, req, brookPc,
                 child, childResult, brookCh, sigCh, sigNotify, out, hist>>

\* lines 268-271: pacWatcher.Add(pacLocalPath) (its error is dropped);
\* out.Reset(); brookCh := make(chan error, 1)
MainAddWatch ==
  /\ Running /\ mainPc = "add_watch"
  /\ \E ok \in BOOLEAN : watching' = ok
  /\ out' = ""
  /\ brookCh' = <<>>
  /\ mainPc' = "go_brook"
  /\ UNCHANGED <<proc, err, fileData, pacData, hmu, lsOpen, serverPc, cancelled,
                 closed, closeMu, events, watchErrs, watcherPc, wData, wErr, req, brookPc,
                 child, childResult, sigCh, sigNotify, hist>>

\* line 272: go func() { brookCmd := exec.CommandContext(ctx, ...) ... }()
MainGoBrook ==
  /\ Running /\ mainPc = "go_brook"
  /\ brookPc' = "start"
  /\ child' = "Starting"
  /\ mainPc' = "notify"
  /\ UNCHANGED <<proc, err, fileData, pacData, hmu, lsOpen, serverPc, cancelled,
                 closed, closeMu, watching, events, watchErrs, watcherPc, wData, wErr, req,
                 childResult, brookCh, sigCh, sigNotify, out, hist>>

\* lines 291-292: sigCh := make(chan os.Signal, 1); signal.Notify(sigCh, ...)
MainNotify ==
  /\ Running /\ mainPc = "notify"
  /\ sigCh' = <<>>
  /\ sigNotify' = TRUE
  /\ mainPc' = "select"
  /\ UNCHANGED <<proc, err, fileData, pacData, hmu, lsOpen, serverPc, cancelled,
                 closed, closeMu, watching, events, watchErrs, watcherPc, wData, wErr, req,
                 brookPc, child, childResult, brookCh, out, hist>>

\* lines 294-297: case recvSig := <-sigCh
MainSelectSig ==
  /\ Running /\ mainPc = "select"
  /\ Len(sigCh) > 0
  /\ sigCh' = Tail(sigCh)
  /\ hist' = [hist EXCEPT !.wake = "signal",
                          !.childAtSignal = IF child = "Running" THEN "Running"
                                            ELSE "other"]
  /\ mainPc' = "sig_cancel"
  /\ UNCHANGED <<proc, err, fileData, pacData, hmu, lsOpen, serverPc, cancelled,
                 closed, closeMu, watching, events, watchErrs, watcherPc, wData, wErr, req,
                 brookPc, child, childResult, brookCh, sigNotify, out>>

\* line 298 with line 299 forgotten: cancel() and straight on to the teardown
MainSigCancel_NoWait ==
  /\ Running /\ mainPc = "sig_cancel"
  /\ cancelled' = TRUE
  /\ mainPc' = "lock"
  /\ UNCHANGED <<proc, err, fileData, pacData, hmu, lsOpen, serverPc, closed,
                 closeMu, watching, events, watchErrs, watcherPc, wData, wErr, req, brookPc,
                 child, childResult, brookCh, sigCh, sigNotify, out, hist>>

\* line 298: cancel()
MainSigCancel ==
  /\ Running /\ mainPc = "sig_cancel"
  /\ cancelled' = TRUE
  /\ mainPc' = "sig_wait"
  /\ UNCHANGED <<proc, err, fileData, pacData, hmu, lsOpen, serverPc, closed,
                 closeMu, watching, events, watchErrs, watcherPc, wData, wErr, req, brookPc,
                 child, childResult, brookCh, sigCh, sigNotify, out, hist>>

\* line 299: <-brookCh
MainSigWait ==
  /\ Running /\ mainPc = "sig_wait"
  /\ Len(brookCh) > 0
  /\ brookCh' = Tail(brookCh)
  /\ hist' = [hist EXCEPT !.gotBrook = TRUE]
  /\ mainPc' = "lock"
  /\ UNCHANGED <<proc, err, fileData, pacData, hmu, lsOpen, serverPc, cancelled,
                 closed, closeMu, watching, events, watchErrs, watcherPc, wData, wErr, req,
                 brookPc, child, childResult, sigCh, sigNotify, out>>

\* lines 301-303: case brookErr := <-brookCh; log.Printf(..., brookErr, out.String())
MainSelectBrook ==
  /\ Running /\ mainPc = "select"
  /\ Len(brookCh) > 0
  /\ brookCh' = Tail(brookCh)
  /\ hist' = [hist EXCEPT !.wake = "child", !.gotBrook = TRUE,
                          !.logged = <<Head(brookCh), out>>]
  /\ mainPc' = "brook_cancel"
  /\ UNCHANGED <<proc, err, fileData, pacData, hmu, lsOpen, serverPc, cancelled,
                 closed, closeMu, watching, events, watchErrs, watcherPc, wData, wErr, req,
                 brookPc, child, childResult, sigCh, sigNotify, out>>

\* line 304 forgotten: the child-exit branch does not cancel
MainBrookCancel_NoCancel ==
  /\ Running /\ mainPc = "brook_cancel"
  /\ mainPc' = "lock"
  /\ UNCHANGED <<proc, err, fileData, pacData, hmu, lsOpen, serverPc, cancelled,
                 closed, closeMu, watching, events, watchErrs, watcherPc, wData, wErr, req,
                 brookPc, child, childResult, brookCh, sigCh, sigNotify, out, hist>>

\* line 304: cancel()
MainBrookCancel ==
  /\ Running /\ mainPc = "brook_cancel"
  /\ cancelled' = TRUE
  /\ mainPc' = "lock"
  /\ UNCHANGED <<proc, err, fileData, pacData, hmu, lsOpen, serverPc, closed,
                 closeMu, watching, events, watchErrs, watcherPc, wData, wErr, req, brookPc,
                 child, childResult, brookCh, sigCh, sigNotify, out, hist>>

\* line 307 without mutual exclusion: main goes on while the watcher holds closeMu
MainLock_NoWait ==
  /\ Running /\ mainPc = "lock"
  /\ closeMu' = "main"
  /\ mainPc' = "set_closed"
  /\ UNCHANGED <<proc, err, fileData, pacData, hmu, lsOpen, serverPc, cancelled,
                 closed, watching, events, watchErrs, watcherPc, wData, wErr, req, brookPc,
                 child, childResult, brookCh, sigCh, sigNotify, out, hist>>

\* line 307: closeMu.Lock()
MainLock ==
  /\ Running /\ mainPc = "lock"
  /\ closeMu = "free"
  /\ closeMu' = "main"
  /\ mainPc' = "set_closed"
  /\ UNCHANGED <<proc, err, fileData, pacData, hmu, lsOpen, serverPc, cancelled,
                 closed, watching, events, watchErrs, watcherPc, wData, wErr, req, brookPc,
                 child, childResult, brookCh, sigCh, sigNotify, out, hist>>

\* line 308: closed = true
MainSetClosed ==
  /\ Running /\ mainPc = "set_closed"
  /\ closed' = TRUE
  /\ hist' = [hist EXCEPT !.order = Append(@, "gate"),
                          !.gateUnderLock = IF closeMu = "main" THEN "yes" ELSE "no"]
  /\ mainPc' = "unlock"
  /\ UNCHANGED <<proc, err, fileData, pacData, hmu, lsOpen, serverPc, cancelled,
                 closeMu, watching, events, watchErrs, watcherPc, wData, wErr, req, brookPc,
                 child, childResult, brookCh, sigCh, sigNotify, out>>

\* line 309 with line 310 forgotten: the listener is left open
MainUnlock_SkipClose ==
  /\ Running /\ mainPc = "unlock"
  /\ closeMu' = "free"
  /\ mainPc' = "disable"
  /\ UNCHANGED <<proc, err, fileData, pacData, hmu, lsOpen, serverPc, cancelled,
                 closed, watching, events, watchErrs, watcherPc, wData, wErr, req, brookPc,
                 child, childResult, brookCh, sigCh, sigNotify, out, hist>>

\* line 309: closeMu.Unlock()
MainUnlock ==
  /\ Running /\ mainPc = "unlock"
  /\ closeMu' = "free"
  /\ mainPc' = "ls_close"
  /\ UNCHANGED <<proc, err, fileData, pacData, hmu, lsOpen, serverPc, cancelled,
                 closed, watching, events, watchErrs, watcherPc, wData, wErr, req, brookPc,
                 child, childResult, brookCh, sigCh, sigNotify, out, hist>>

\* line 310: ls.Close()
MainCloseListener ==
  /\ Running /\ mainPc = "ls_close"
  /\ lsOpen' = "closed"
  /\ hist' = [hist EXCEPT !.order = Append(@, "listener")]
  /\ mainPc' = "disable"
  /\ UNCHANGED <<proc, err, fileData, pacData, hmu, serverPc, cancelled, closed,
                 closeMu, watching, events, watchErrs, watcherPc, wData, wErr, req, brookPc,
                 child, childResult, brookCh, sigCh, sigNotify, out>>

\* lines 318-321 retrying instead of exiting: a failed Start() runs the command again
MainDisable_Retry ==
  /\ Running /\ mainPc = "disable"
  /\ \E started \in BOOLEAN :
       /\ hist' = [hist EXCEPT !.disableInvoked = @ + 1]
       /\ mainPc' = IF started THEN "bye" ELSE "disable"
  /\ out' = ""
  /\ UNCHANGED <<proc, err, fileData, pacData, hmu, lsOpen, serverPc, cancelled,
                 closed, closeMu, watching, events, watchErrs, watcherPc, wData,
                 wErr, req, brookPc, child, childResult, brookCh, sigCh, sigNotify>>

\* lines 312-325: out.Reset(); exec.Command(bin, "systemproxy", "-r").Start();
\* a start error or observed output is fatal
MainDisable ==
  /\ Running /\ mainPc = "disable"
  /\ \E started \in BOOLEAN, printed \in BOOLEAN, seen \in BOOLEAN :
       LET r == enableSystemProxy(started, printed, seen)
           h == [hist EXCEPT !.disableInvoked = @ + 1,
                             !.order = Append(@, "disable")]
       IN /\ out' = IF r = "outputErr" THEN "diag" ELSE ""
          /\ IF r = "nil"
             THEN /\ mainPc' = "bye" /\ hist' = h /\ UNCHANGED proc
             ELSE /\ Fatal(h, "disable") /\ UNCHANGED mainPc
  /\ UNCHANGED <<err, fileData, pacData, hmu, lsOpen, serverPc, cancelled, closed,
                 closeMu, watching, events, watchErrs, watcherPc, wData, wErr, req, brookPc,
                 child, childResult, brookCh, sigCh, sigNotify>>

\* lines 327-328: log.Printf("Bye ..."); main returns
MainBye ==
  /\ Running /\ mainPc = "bye"
  /\ proc' = "done"
  /\ mainPc' = "end"
  /\ hist' = [hist EXCEPT !.order = Append(@, "exit"), !.exitAt = "end"]
  /\ UNCHANGED <<err, fileData, pacData, hmu, lsOpen, serverPc, cancelled, closed,
                 closeMu, watching, events, watchErrs, watcherPc, wData, wErr, req, brookPc,
                 child, childResult, brookCh, sigCh, sigNotify, out>>

\* ---------------------------------------------------------------------
\* HTTP server goroutine (lines 196-205)
\* ---------------------------------------------------------------------

\* server.Serve(ls) returns "use of closed network connection" after ls.Close()
ServeClosed ==
  /\ Running /\ serverPc = "serving" /\ lsOpen = "closed"
  /\ serverPc' = "stopped"
  /\ UNCHANGED <<proc, mainPc, err, fileData, pacData, hmu, lsOpen, cancelled,
                 closed, closeMu, watching, events, watchErrs, watcherPc, wData, wErr, req,
                 brookPc, child, childResult, brookCh, sigCh, sigNotify, out, hist>>

\* server.Serve(ls) returns any other error: log.Fatalf on line 203
ServeFatal ==
  /\ Running /\ serverPc = "serving" /\ lsOpen = "open"
  /\ Fatal(hist, "serve")
  /\ UNCHANGED <<mainPc, err, fileData, pacData, hmu, lsOpen, serverPc, cancelled,
                 closed, closeMu, watching, events, watchErrs, watcherPc, wData, wErr, req,
                 brookPc, child, childResult, brookCh, sigCh, sigNotify, out>>

\* ---------------------------------------------------------------------
\* ph.ServeHTTP (lines 88-97), run by the server for a request
\* ---------------------------------------------------------------------

\* line 91 read without the protection of h.mu while the watcher is inside
\* its critical section about to assign (line 105): a data race on the
\* three-word slice header, which yields the old value, the new one or a
\* mix of both
ReadPacData ==
  IF hmu # "handler" /\ watcherPc = "store"
  THEN {pacData, wData, "torn"}
  ELSE {pacData}

\* lines 88-89: a request arrives on the open listener; the prefix test
HServe ==
  /\ Running /\ serverPc = "serving" /\ lsOpen = "open"
  /\ req.pc = "idle"
  /\ \E t \in Targets :
       req' = [NoRequest EXCEPT
                 !.uri = t,
                 !.fresh = {pacData},
                 !.pc = IF HasPrefix(t, PacPrefix) THEN "lock" ELSE "notfound"]
  /\ UNCHANGED <<proc, mainPc, err, fileData, pacData, hmu, lsOpen, serverPc, cancelled,
                 closed, closeMu, watching, events, watchErrs, watcherPc, wData, wErr,
                 brookPc, child, childResult, brookCh, sigCh, sigNotify, out, hist>>

\* the handler reads h.pacData without taking h.mu
HLock_NoLock ==
  /\ Running /\ req.pc = "lock"
  /\ req' = [req EXCEPT !.pc = "read"]
  /\ UNCHANGED <<proc, mainPc, err, fileData, pacData, hmu, lsOpen, serverPc, cancelled,
                 closed, closeMu, watching, events, watchErrs, watcherPc, wData, wErr,
                 brookPc, child, childResult, brookCh, sigCh, sigNotify, out, hist>>

\* line 90: h.mu.Lock()
HLock ==
  /\ Running /\ req.pc = "lock"
  /\ hmu = "free"
  /\ hmu' = "handler"
  /\ req' = [req EXCEPT !.pc = "read"]
  /\ UNCHANGED <<proc, mainPc, err, fileData, pacData, lsOpen, serverPc, cancelled,
                 closed, closeMu, watching, events, watchErrs, watcherPc, wData, wErr,
                 brookPc, child, childResult, brookCh, sigCh, sigNotify, out, hist>>

\* line 91: data := h.pacData
HRead ==
  /\ Running /\ req.pc = "read"
  /\ \E v \in ReadPacData : req' = [req EXCEPT !.data = v, !.pc = "unlock"]
  /\ UNCHANGED <<proc, mainPc, err, fileData, pacData, hmu, lsOpen, serverPc, cancelled,
                 closed, closeMu, watching, events, watchErrs, watcherPc, wData, wErr,
                 brookPc, child, childResult, brookCh, sigCh, sigNotify, out, hist>>

\* line 92: h.mu.Unlock()
HUnlock ==
  /\ Running /\ req.pc = "unlock"
  /\ hmu' = "free"
  /\ req' = [req EXCEPT !.pc = "write"]
  /\ UNCHANGED <<proc, mainPc, err, fileData, pacData, lsOpen, serverPc, cancelled,
                 closed, closeMu, watching, events, watchErrs, watcherPc, wData, wErr,
                 brookPc, child, childResult, brookCh, sigCh, sigNotify, out, hist>>

\* lines 93-94: w.Write(data) sends status 200 and the bytes; return
HWrite ==
  /\ Running /\ req.pc = "write"
  /\ req' = [req EXCEPT !.status = 200, !.body = req.data, !.pc = "done"]
  /\ UNCHANGED <<proc, mainPc, err, fileData, pacData, hmu, lsOpen, serverPc, cancelled,
                 closed, closeMu, watching, events, watchErrs, watcherPc, wData, wErr,
                 brookPc, child, childResult, brookCh, sigCh, sigNotify, out, hist>>

\* line 96: w.WriteHeader(http.StatusNotFound), nothing written
HNotFound ==
  /\ Running /\ req.pc = "notfound"
  /\ req' = [req EXCEPT !.status = 404, !.pc = "done"]
  /\ UNCHANGED <<proc, mainPc, err, fileData, pacData, hmu, lsOpen, serverPc, cancelled,
                 closed, closeMu, watching, events, watchErrs, watcherPc, wData, wErr,
                 brookPc, child, childResult, brookCh, sigCh, sigNotify, out, hist>>

\* the response has gone out; the server is ready for the next request
HFinish ==
  /\ Running /\ req.pc = "done"
  /\ req' = NoRequest
  /\ UNCHANGED <<proc, mainPc, err, fileData, pacData, hmu, lsOpen, serverPc, cancelled,
                 closed, closeMu, watching, events, watchErrs, watcherPc, wData, wErr,
                 brookPc, child, childResult, brookCh, sigCh, sigNotify, out, hist>>

\* ---------------------------------------------------------------------
\* watcher goroutine (lines 228-267)
\* ---------------------------------------------------------------------

\* the watcher is inside a reload cycle: past the gate check, gate not released
InCycle == {"reload", "hmu_lock", "store", "hmu_unlock", "enable", "unlock"}

\* lines 231-233: case event := <-pacWatcher.Events; the Write test
WRecvEvent ==
  /\ Running /\ watcherPc = "select"
  /\ Len(events) > 0
  /\ events' = Tail(events)
  /\ IF Head(events) = "W"
     THEN /\ watcherPc' = "sleep"
          /\ hist' = [hist EXCEPT !.debounces = @ + 1]
     ELSE /\ UNCHANGED <<watcherPc, hist>>
  /\ UNCHANGED <<proc, mainPc, err, fileData, pacData, hmu, lsOpen, serverPc,
                 cancelled, closed, closeMu, watching, watchErrs, wData, wErr, req, brookPc,
                 child, childResult, brookCh, sigCh, sigNotify, out>>

\* line 235: time.Sleep(time.Millisecond * 100) returns
WSleep ==
  /\ Running /\ watcherPc = "sleep"
  /\ watcherPc' = "drain"
  /\ UNCHANGED <<proc, mainPc, err, fileData, pacData, hmu, lsOpen, serverPc,
                 cancelled, closed, closeMu, watching, events, watchErrs, wData, wErr, req,
                 brookPc, child, childResult, brookCh, sigCh, sigNotify, out, hist>>

\* lines 236-240: select { case <-pacWatcher.Events: default: }
WDrain ==
  /\ Running /\ watcherPc = "drain"
  /\ events' = IF Len(events) > 0 THEN Tail(events) ELSE events
  /\ watcherPc' = "lock"
  /\ UNCHANGED <<proc, mainPc, err, fileData, pacData, hmu, lsOpen, serverPc,
                 cancelled, closed, closeMu, watching, watchErrs, wData, wErr, req, brookPc,
                 child, childResult, brookCh, sigCh, sigNotify, out, hist>>

\* line 241: closeMu.Lock()
WLock ==
  /\ Running /\ watcherPc = "lock"
  /\ closeMu = "free"
  /\ closeMu' = "watcher"
  /\ watcherPc' = "check"
  /\ UNCHANGED <<proc, mainPc, err, fileData, pacData, hmu, lsOpen, serverPc,
                 cancelled, closed, watching, events, watchErrs, wData, wErr, req, brookPc,
                 child, childResult, brookCh, sigCh, sigNotify, out, hist>>

\* lines 242-245 forgotten: the reload starts whatever closed says
WCheckClosed_NoCheck ==
  /\ Running /\ watcherPc = "check"
  /\ watcherPc' = "reload"
  /\ hist' = [hist EXCEPT !.reloadCycles = @ + 1]
  /\ UNCHANGED <<proc, mainPc, err, fileData, pacData, hmu, lsOpen, serverPc,
                 cancelled, closed, closeMu, watching, events, watchErrs, wData, wErr, req,
                 brookPc, child, childResult, brookCh, sigCh, sigNotify, out>>

\* lines 242-246: if closed { closeMu.Unlock(); return }; else ph.reload() is called
WCheckClosed ==
  /\ Running /\ watcherPc = "check"
  /\ IF closed
     THEN /\ closeMu' = "free"
          /\ watcherPc' = "done"
          /\ hist' = [hist EXCEPT !.sawClosed = TRUE]
     ELSE /\ watcherPc' = "reload"
          /\ hist' = [hist EXCEPT !.reloadCycles = @ + 1,
                                  !.lateCycle = @ \/ cancelled]
          /\ UNCHANGED closeMu
  /\ UNCHANGED <<proc, mainPc, err, fileData, pacData, hmu, lsOpen, serverPc,
                 cancelled, closed, watching, events, watchErrs, wData, wErr, req, brookPc,
                 child, childResult, brookCh, sigCh, sigNotify, out>>

\* lines 246-250 without line 248: a failed read leaves closeMu locked
WReloadRead_NoUnlock ==
  /\ Running /\ watcherPc = "reload"
  /\ \E readOk \in BOOLEAN :
       IF readOk
       THEN /\ wData' = fileData /\ watcherPc' = "hmu_lock"
            /\ hist' = [hist EXCEPT !.lastRead = fileData]
       ELSE /\ watcherPc' = "select"
            /\ hist' = [hist EXCEPT !.lateCycle = FALSE]
            /\ UNCHANGED wData
  /\ UNCHANGED <<wErr, req, proc, mainPc, err, fileData, pacData, hmu, lsOpen,
                 serverPc, cancelled, closed, closeMu, watching, events, watchErrs,
                 brookPc, child, childResult, brookCh, sigCh, sigNotify, out>>

\* lines 100-103 returning the blob already held instead of the file's contents
WReloadRead_Cached ==
  /\ Running /\ watcherPc = "reload"
  /\ \E readOk \in BOOLEAN :
       IF readOk
       THEN /\ wData' = pacData /\ watcherPc' = "hmu_lock"
            /\ hist' = [hist EXCEPT !.lastRead = pacData]
            /\ UNCHANGED closeMu
       ELSE /\ closeMu' = "free" /\ watcherPc' = "select"
            /\ hist' = [hist EXCEPT !.lateCycle = FALSE]
            /\ UNCHANGED wData
  /\ UNCHANGED <<wErr, req, proc, mainPc, err, fileData, pacData, hmu, lsOpen,
                 serverPc, cancelled, closed, watching, events, watchErrs,
                 brookPc, child, childResult, brookCh, sigCh, sigNotify, out>>

\* lines 100-103 and 246-250: ioutil.ReadFile; on failure log, closeMu.Unlock(), break
WReloadRead ==
  /\ Running /\ watcherPc = "reload"
  /\ \E readOk \in BOOLEAN :
       IF readOk
       THEN /\ wData' = fileData /\ watcherPc' = "hmu_lock"
            /\ hist' = [hist EXCEPT !.lastRead = fileData]
            /\ UNCHANGED closeMu
       ELSE /\ closeMu' = "free" /\ watcherPc' = "select"
            /\ hist' = [hist EXCEPT !.lateCycle = FALSE]
            /\ UNCHANGED wData
  /\ UNCHANGED <<wErr, req, proc, mainPc, err, fileData, pacData, hmu, lsOpen, serverPc,
                 cancelled, closed, watching, events, watchErrs, brookPc, child,
                 childResult, brookCh, sigCh, sigNotify, out>>

\* line 104: h.mu.Lock()
WReloadLockMu ==
  /\ Running /\ watcherPc = "hmu_lock"
  /\ hmu = "free"
  /\ hmu' = "watcher"
  /\ watcherPc' = "store"
  /\ UNCHANGED <<proc, mainPc, err, fileData, pacData, lsOpen, serverPc,
                 cancelled, closed, closeMu, watching, events, watchErrs, wData, wErr, req,
                 brookPc, child, childResult, brookCh, sigCh, sigNotify, out, hist>>

\* line 105: h.pacData = data
WReloadStore ==
  /\ Running /\ watcherPc = "store"
  /\ pacData' = wData
  /\ req' = IF req.pc = "idle" THEN req ELSE [req EXCEPT !.fresh = @ \cup {wData}]
  /\ hist' = [hist EXCEPT !.replaces = @ + 1]
  /\ watcherPc' = "hmu_unlock"
  /\ UNCHANGED <<proc, mainPc, err, fileData, hmu, lsOpen, serverPc, cancelled,
                 closed, closeMu, watching, events, watchErrs, wData, wErr, brookPc,
                 child, childResult, brookCh, sigCh, sigNotify, out>>

\* lines 106-107: h.mu.Unlock(); return nil
WReloadUnlockMu ==
  /\ Running /\ watcherPc = "hmu_unlock"
  /\ hmu' = "free"
  /\ wData' = "empty"
  /\ watcherPc' = "enable"
  /\ UNCHANGED <<wErr, req, proc, mainPc, err, fileData, pacData, lsOpen, serverPc,
                 cancelled, closed, closeMu, watching, events, watchErrs,
                 brookPc, child, childResult, brookCh, sigCh, sigNotify, out, hist>>

\* lines 251-255 forgotten: the reload is not followed by the reapply
WEnable_Skip ==
  /\ Running /\ watcherPc = "enable"
  /\ wErr' = "nil"
  /\ watcherPc' = "unlock"
  /\ UNCHANGED <<proc, mainPc, err, fileData, pacData, hmu, lsOpen, serverPc,
                 cancelled, closed, closeMu, watching, events, watchErrs, wData,
                 req, brookPc, child, childResult, brookCh, sigCh, sigNotify, out,
                 hist>>

\* lines 251-255 returning on a failed reapply, closeMu still locked
WEnable_FailReturn ==
  /\ Running /\ watcherPc = "enable"
  /\ \E started \in BOOLEAN, printed \in BOOLEAN, seen \in BOOLEAN :
       LET r == enableSystemProxy(started, printed, seen)
       IN /\ hist' = [hist EXCEPT !.enableInvoked = @ + 1]
          /\ wErr' = r
          /\ watcherPc' = IF r = "nil" THEN "unlock" ELSE "done"
  /\ UNCHANGED <<proc, mainPc, err, fileData, pacData, hmu, lsOpen, serverPc,
                 cancelled, closed, closeMu, watching, events, watchErrs, wData,
                 req, brookPc, child, childResult, brookCh, sigCh, sigNotify, out>>

\* lines 251-255: enableSystemProxy(".../pac?ts=..."); its error is only logged
WEnable ==
  /\ Running /\ watcherPc = "enable"
  /\ \E started \in BOOLEAN, printed \in BOOLEAN, seen \in BOOLEAN :
       LET r == enableSystemProxy(started, printed, seen)
       IN /\ hist' = [hist EXCEPT !.enableInvoked = @ + 1]
          /\ wErr' = r
  /\ watcherPc' = "unlock"
  /\ UNCHANGED <<proc, mainPc, err, fileData, pacData, hmu, lsOpen, serverPc,
                 cancelled, closed, closeMu, watching, events, watchErrs, wData, req,
                 brookPc, child, childResult, brookCh, sigCh, sigNotify, out>>

\* line 256: closeMu.Unlock(); the if statement's err goes out of scope
WUnlock ==
  /\ Running /\ watcherPc = "unlock"
  /\ closeMu' = "free"
  /\ wErr' = "none"
  /\ watcherPc' = "select"
  /\ hist' = [hist EXCEPT !.lateCycle = FALSE]
  /\ UNCHANGED <<proc, mainPc, err, fileData, pacData, hmu, lsOpen, serverPc,
                 cancelled, closed, watching, events, watchErrs, wData, req, brookPc,
                 child, childResult, brookCh, sigCh, sigNotify, out>>

\* lines 259-262 returning on a watch error
WRecvError_Exit ==
  /\ Running /\ watcherPc = "select"
  /\ watchErrs > 0
  /\ watchErrs' = watchErrs - 1
  /\ watcherPc' = "done"
  /\ UNCHANGED <<proc, mainPc, err, fileData, pacData, hmu, lsOpen, serverPc,
                 cancelled, closed, closeMu, watching, events, wData, wErr, req,
                 brookPc, child, childResult, brookCh, sigCh, sigNotify, out, hist>>

\* lines 259-262: case watchErr := <-pacWatcher.Errors
WRecvError ==
  /\ Running /\ watcherPc = "select"
  /\ watchErrs > 0
  /\ watchErrs' = watchErrs - 1
  /\ UNCHANGED <<proc, mainPc, err, fileData, pacData, hmu, lsOpen, serverPc,
                 cancelled, closed, closeMu, watching, events, watcherPc, wData, wErr, req,
                 brookPc, child, childResult, brookCh, sigCh, sigNotify, out, hist>>

\* lines 263-264: case <-ctx.Done(): return
WCtxDone ==
  /\ Running /\ watcherPc = "select"
  /\ cancelled
  /\ watcherPc' = "done"
  /\ UNCHANGED <<proc, mainPc, err, fileData, pacData, hmu, lsOpen, serverPc,
                 cancelled, closed, closeMu, watching, events, watchErrs, wData, wErr, req,
                 brookPc, child, childResult, brookCh, sigCh, sigNotify, out, hist>>

\* ---------------------------------------------------------------------
\* brook client goroutine (lines 272-288) and the client process
\* ---------------------------------------------------------------------

\* line 281: startErr := brookCmd.Start()
BStart ==
  /\ Running /\ brookPc = "start"
  /\ \E ok \in BOOLEAN :
       IF ok
       THEN /\ child' = "Running" /\ brookPc' = "wait" /\ UNCHANGED hist
       ELSE /\ child' = "Exited" /\ brookPc' = "send_err"
            /\ hist' = [hist EXCEPT !.startFailed = TRUE]
  /\ UNCHANGED <<proc, mainPc, err, fileData, pacData, hmu, lsOpen, serverPc,
                 cancelled, closed, closeMu, watching, events, watchErrs,
                 watcherPc, wData, wErr, req, childResult, brookCh, sigCh, sigNotify, out>>

\* lines 282-285 without the send: if nil != startErr { return }
BSendErr_NoSend ==
  /\ Running /\ brookPc = "send_err"
  /\ brookPc' = "done"
  /\ UNCHANGED <<proc, mainPc, err, fileData, pacData, hmu, lsOpen, serverPc,
                 cancelled, closed, closeMu, watching, events, watchErrs,
                 watcherPc, wData, wErr, req, child, childResult, brookCh, sigCh, sigNotify,
                 out, hist>>

\* lines 282-285: if nil != startErr { brookCh <- err; return }
BSendErr ==
  /\ Running /\ brookPc = "send_err"
  /\ Len(brookCh) < BrookChCap
  /\ brookCh' = Append(brookCh, err)
  /\ hist' = [hist EXCEPT !.sends = @ + 1, !.sentVal = err]
  /\ brookPc' = "done"
  /\ UNCHANGED <<proc, mainPc, err, fileData, pacData, hmu, lsOpen, serverPc,
                 cancelled, closed, closeMu, watching, events, watchErrs,
                 watcherPc, wData, wErr, req, child, childResult, sigCh, sigNotify, out>>

\* lines 286-287: brookCh <- brookCmd.Wait()
BWait ==
  /\ Running /\ brookPc = "wait"
  /\ child = "Exited"
  /\ Len(brookCh) < BrookChCap
  /\ brookCh' = Append(brookCh, childResult)
  /\ hist' = [hist EXCEPT !.sends = @ + 1, !.sentVal = childResult]
  /\ brookPc' = "done"
  /\ UNCHANGED <<proc, mainPc, err, fileData, pacData, hmu, lsOpen, serverPc,
                 cancelled, closed, closeMu, watching, events, watchErrs,
                 watcherPc, wData, wErr, req, child, childResult, sigCh, sigNotify, out>>

\* the client exits on its own, cleanly or with an error and its diagnostics
\* in out (brookCmd.Stdout = out, line 279)
ChildSelfExit ==
  /\ Running /\ child = "Running"
  /\ child' = "Exited"
  /\ \E res \in {"nil", "exitErr"} :
       /\ childResult' = res
       /\ out' = IF res = "nil" THEN "" ELSE "diag"
  /\ UNCHANGED <<proc, mainPc, err, fileData, pacData, hmu, lsOpen, serverPc,
                 cancelled, closed, closeMu, watching, events, watchErrs,
                 watcherPc, wData, wErr, req, brookPc, brookCh, sigCh, sigNotify, hist>>

\* exec.CommandContext kills the client once ctx is done
ChildKilled ==
  /\ Running /\ child = "Running"
  /\ cancelled
  /\ child' = "Exited"
  /\ childResult' = "exitErr"
  /\ UNCHANGED <<proc, mainPc, err, fileData, pacData, hmu, lsOpen, serverPc,
                 cancelled, closed, closeMu, watching, events, watchErrs,
                 watcherPc, wData, wErr, req, brookPc, brookCh, sigCh, sigNotify, out, hist>>

\* ---------------------------------------------------------------------
\* environment
\* ---------------------------------------------------------------------

\* something writes pacLocalPath; a watched file raises a Write event (the
\* only kind of event this environment raises)
EnvWrite ==
  /\ Running
  /\ \E v \in Blobs :
       IF watching
       THEN /\ hist.writes < MaxWrites
            /\ fileData' = v
            /\ events' = Append(events, "W")
            /\ hist' = [hist EXCEPT
                 !.writes = @ + 1,
                 !.burst = @ /\ (hist.writes = 0
                                 \/ (watcherPc = "sleep" /\ hist.debounces = 1))]
       ELSE /\ v # fileData
            /\ fileData' = v
            /\ UNCHANGED <<events, hist>>
  /\ UNCHANGED <<proc, mainPc, err, pacData, hmu, lsOpen, serverPc, cancelled,
                 closed, closeMu, watching, watchErrs, watcherPc, wData, wErr, req, brookPc,
                 child, childResult, brookCh, sigCh, sigNotify, out>>

\* the watch mechanism reports an error on pacWatcher.Errors
EnvWatchError ==
  /\ Running /\ watcherPc # "notStarted"
  /\ watchErrs < MaxWatchErrs
  /\ watchErrs' = watchErrs + 1
  /\ UNCHANGED <<hist, proc, mainPc, err, fileData, pacData, hmu, lsOpen, serverPc,
                 cancelled, closed, closeMu, watching, events, watcherPc, wData, wErr, req,
                 brookPc, child, childResult, brookCh, sigCh, sigNotify, out>>

\* a termination signal arrives once signal.Notify is in place; the runtime
\* drops it when sigCh is full
EnvSignal ==
  /\ Running /\ sigNotify
  /\ sigCh' = IF Len(sigCh) < SigChCap THEN Append(sigCh, "sig") ELSE sigCh
  /\ UNCHANGED <<hist, proc, mainPc, err, fileData, pacData, hmu, lsOpen, serverPc,
                 cancelled, closed, closeMu, watching, events, watchErrs,
                 watcherPc, wData, wErr, req, brookPc, child, childResult, brookCh,
                 sigNotify, out>>

Next ==
  \/ MainListen \/ MainInitReload \/ MainGoServer \/ MainEnable
  \/ MainNewWatcher \/ MainGoWatcher \/ MainAddWatch \/ MainGoBrook
  \/ MainNotify \/ MainSelectSig \/ MainSigCancel \/ MainSigWait
  \/ MainSelectBrook \/ MainBrookCancel \/ MainLock \/ MainSetClosed
  \/ MainUnlock \/ MainCloseListener \/ MainDisable \/ MainBye
  \/ ServeClosed \/ ServeFatal
  \/ WRecvEvent \/ WSleep \/ WDrain \/ WLock \/ WCheckClosed \/ WReloadRead
  \/ WReloadLockMu \/ WReloadStore \/ WReloadUnlockMu \/ WEnable \/ WUnlock
  \/ WRecvError \/ WCtxDone
  \/ BStart \/ BSendErr \/ BWait \/ ChildSelfExit \/ ChildKilled
  \/ EnvWrite \/ EnvWatchError \/ EnvSignal

Spec == Init /\ [][Next]_vars

\* the serving phase: the program from start until the watch is in place,
\* the watcher's reload cycles, writes of the file, and requests
NextServe ==
  \/ MainListen \/ MainInitReload \/ MainGoServer \/ MainEnable
  \/ MainNewWatcher \/ MainGoWatcher \/ MainAddWatch
  \/ WRecvEvent \/ WSleep \/ WDrain \/ WLock \/ WCheckClosed \/ WReloadRead
  \/ WReloadLockMu \/ WReloadStore \/ WReloadUnlockMu \/ WEnable \/ WUnlock
  \/ EnvWrite
  \/ HServe \/ HLock \/ HRead \/ HUnlock \/ HWrite \/ HNotFound \/ HFinish

SpecServe == Init /\ [][NextServe]_vars

\* Scheduling: every goroutine that can take a step eventually takes one,
\* and the killed client exits (exec.CommandContext kills it on cancel).
\* Nothing obliges the environment to write, signal or fail. closeMu is a
\* sync.Mutex, whose starvation mode hands the lock to a goroutine that has
\* waited: main's closeMu.Lock() is strongly fair.
MainStep ==
  \/ MainListen \/ MainInitReload \/ MainGoServer \/ MainEnable
  \/ MainNewWatcher \/ MainGoWatcher \/ MainAddWatch \/ MainGoBrook
  \/ MainNotify \/ MainSelectSig \/ MainSigCancel \/ MainSigWait
  \/ MainSelectBrook \/ MainBrookCancel \/ MainSetClosed
  \/ MainUnlock \/ MainCloseListener \/ MainDisable \/ MainBye

WatcherStep ==
  \/ WRecvEvent \/ WSleep \/ WDrain \/ WLock \/ WCheckClosed \/ WReloadRead
  \/ WReloadLockMu \/ WReloadStore \/ WReloadUnlockMu \/ WEnable \/ WUnlock
  \/ WRecvError \/ WCtxDone

BrookStep == BStart \/ BSendErr \/ BWait

FairSpec ==
  /\ Spec
  /\ WF_vars(MainStep) /\ SF_vars(MainLock)
  /\ WF_vars(WatcherStep)
  /\ WF_vars(BrookStep)
  /\ WF_vars(ServeClosed)
  /\ WF_vars(ChildKilled)

\* ---------------------------------------------------------------------
\* properties
\* ---------------------------------------------------------------------

IsPrefix(s, t) == Len(s) <= Len(t) /\ \A i \in 1..Len(s) : s[i] = t[i]

TeardownOrder == <<"gate", "listener", "disable", "exit">>

\* C1: once closed is true, no step replaces ph.pacData or calls
\* enableSystemProxy, whatever events were queued before
C1_NoReloadAfterClose ==
  [][closed => /\ pacData' = pacData
               /\ hist'.replaces = hist.replaces
               /\ hist'.enableInvoked = hist.enableInvoked]_vars

\* C1 witness: two or more writes were raised and the watcher, woken by one of
\* them, found the gate closed and returned
C1_Witness ==
  closed /\ hist.sawClosed /\ hist.writes >= 2 /\ watcherPc = "done"

\* C2: whenever the process has ended after the startup enable succeeded, the
\* disable command has been invoked
C2_AlwaysRestores ==
  (proc # "running" /\ hist.startupEnable.res = "nil") => hist.disableInvoked > 0

\* C3: when every write after the first was raised during the sleep started by
\* the first, there is at most one reload cycle, and exactly one once the
\* watcher is back at its select with nothing left to read
C3_BurstOneReload ==
  (hist.burst /\ hist.writes >= 1) =>
     /\ hist.reloadCycles <= 1
     /\ (watcherPc = "select" /\ events = <<>> /\ ~closed) => hist.reloadCycles = 1

\* C4: after the signal case fired, the context is cancelled before main waits,
\* the disable command is not invoked before main has received from brookCh,
\* it is invoked at most once, and exactly once when main returns
C4_SignalShutdown ==
  hist.wake = "signal" =>
     /\ (mainPc # "sig_cancel" => cancelled)
     /\ (hist.disableInvoked > 0 => hist.gotBrook)
     /\ (mainPc \in {"sig_cancel", "sig_wait"} => hist.disableInvoked = 0)
     /\ hist.disableInvoked <= 1
     /\ (proc = "done" => hist.disableInvoked = 1)

\* C4 witness: the signal arrived while the client was running, and main
\* returned after the client was killed
C4_Witness ==
  /\ hist.wake = "signal" /\ hist.childAtSignal = "Running"
  /\ proc = "done" /\ hist.disableInvoked = 1 /\ hist.gotBrook

\* C5: after the child-exit case fired, the error received and the buffer out
\* are logged, the context is cancelled before the teardown, the disable
\* command is invoked at most once, and exactly once when main returns
C5_ChildExitShutdown ==
  hist.wake = "child" =>
     /\ hist.logged = <<hist.sentVal, IF hist.sentVal = "exitErr" THEN "diag" ELSE "">>
     /\ (mainPc # "brook_cancel" => cancelled)
     /\ (mainPc = "brook_cancel" => hist.disableInvoked = 0)
     /\ hist.disableInvoked <= 1
     /\ (proc = "done" => hist.disableInvoked = 1)

\* C5 witness: the client exited with an error, no signal was received, main returned
C5_Witness ==
  /\ hist.wake = "child" /\ hist.sentVal = "exitErr" /\ sigCh = <<>>
  /\ proc = "done" /\ hist.disableInvoked = 1 /\ cancelled

\* C6: the goroutine sends on brookCh at most once, and has sent exactly once
\* when it has returned, also when Start() failed
C6_NotifyExactlyOnce ==
  /\ hist.sends <= 1
  /\ Len(brookCh) <= BrookChCap
  /\ (brookPc = "done" => hist.sends = 1)
  /\ (brookPc \in {"notStarted", "start", "send_err", "wait"} => hist.sends = 0)

\* C6 witness: Start() failed and the goroutine returned having sent once
C6_Witness ==
  hist.startFailed /\ brookPc = "done" /\ hist.sends = 1

\* C7: nil is sent only for a client that exited cleanly, and a failed Start()
\* sends a non-nil error
C7_NotificationValue ==
  /\ (hist.sentVal = "nil" => (~hist.startFailed /\ childResult = "nil"))
  /\ ((hist.startFailed /\ hist.sends = 1) => hist.sentVal # "nil")

\* C8: when the startup enable command started and printed, enableSystemProxy
\* returned an error and the process ended with no goroutine started
C8_EnableOutputAborts ==
  (hist.startupEnable.started /\ hist.startupEnable.printed) =>
     /\ hist.startupEnable.res # "nil"
     /\ proc = "fatal"
     /\ serverPc = "notStarted"
     /\ watcherPc = "notStarted"
     /\ brookPc = "notStarted"

\* C9: teardown goes gate (set under closeMu), listener, disable, exit, in
\* that order, and a failed disable leaves gate and listener closed
C9_TeardownOrder ==
  /\ IsPrefix(hist.order, TeardownOrder)
  /\ hist.gateUnderLock # "no"
  /\ (lsOpen = "closed" => closed)
  /\ (hist.disableInvoked > 0 => (closed /\ lsOpen = "closed"))
  /\ (hist.exitAt = "disable" => (closed /\ lsOpen = "closed"))
  /\ (proc = "done" => hist.order = TeardownOrder)

\* C9 witness: the disable command failed
C9_Witness ==
  proc = "fatal" /\ hist.exitAt = "disable" /\ closed /\ lsOpen = "closed"

\* C10: the disable command is not launched while the watcher is inside a
\* reload cycle, and enableSystemProxy is not called once it was launched
C10_MutualExclusion ==
  [][/\ (hist'.disableInvoked > hist.disableInvoked => watcherPc \notin InCycle)
     /\ (hist.disableInvoked > 0 => hist'.enableInvoked = hist.enableInvoked)]_vars

\* C10 witness: a reload cycle ran, the disable command was launched, and a
\* later wake-up of the watcher found the gate closed
C10_Witness ==
  hist.reloadCycles >= 1 /\ hist.disableInvoked = 1 /\ hist.sawClosed

\* C13: after the one write of a run was handled with the gate open and the
\* read succeeding, there was exactly one store, of the file's contents, and
\* exactly one reapply (the second enableSystemProxy call of the run); one
\* write never gives more than one of either
C13_SingleWrite ==
  /\ (hist.writes <= 1 => (hist.replaces <= 1 /\ hist.enableInvoked <= 2))
  /\ (/\ hist.writes = 1 /\ hist.debounces = 1
      /\ watcherPc = "select" /\ events = <<>>
      /\ hist.lastRead # "none")
     => /\ hist.reloadCycles = 1
        /\ hist.replaces = 1
        /\ hist.enableInvoked = 2
        /\ pacData = hist.lastRead
        /\ pacData = fileData

\* C13 witness: one write, handled, the watcher back at its select
C13_Witness ==
  /\ hist.writes = 1 /\ hist.debounces = 1 /\ watcherPc = "select"
  /\ events = <<>> /\ hist.lastRead # "none" /\ ~closed
  /\ hist.replaces = 1 /\ hist.enableInvoked = 2 /\ pacData = fileData

\* C14: the teardown steps are each performed at most once and the disable
\* command is invoked at most once, however many signals arrive
C14_TeardownOnce ==
  /\ hist.disableInvoked <= 1
  /\ Len(hist.order) <= Len(TeardownOrder)
  /\ \A i, j \in 1..Len(hist.order) : hist.order[i] = hist.order[j] => i = j

\* C14 witness: main returned after the signal case, a further signal having
\* arrived since, and the client's exit having been notified too
C14_Witness ==
  /\ proc = "done" /\ hist.wake = "signal" /\ Len(sigCh) = 1
  /\ hist.sends = 1 /\ hist.disableInvoked = 1

\* C15: the step that ends a cycle on a failed read leaves ph.pacData and the
\* event queue alone, calls no enableSystemProxy, releases closeMu, starts no
\* new cycle and leaves the watcher at its select with the process running
C15_ReadFailure ==
  [][(watcherPc = "reload" /\ watcherPc' \notin {"reload", "hmu_lock"})
       => /\ watcherPc' = "select"
          /\ closeMu' = "free"
          /\ pacData' = pacData
          /\ events' = events
          /\ hist'.replaces = hist.replaces
          /\ hist'.enableInvoked = hist.enableInvoked
          /\ hist'.reloadCycles = hist.reloadCycles
          /\ proc' = "running"]_vars

\* C15 witness: the first cycle ended on a failed read, and a later write
\* event started a second cycle whose read succeeded
C15_Witness ==
  hist.reloadCycles = 2 /\ hist.replaces = 0 /\ watcherPc = "hmu_lock"

\* C16: when the reapply fails, ph.pacData holds what the cycle read and is not
\* changed, the watcher goes on to release closeMu and returns to its select
C16_ReapplyFailure ==
  [][/\ (watcherPc = "enable" /\ watcherPc' # "enable" /\ wErr' # "nil")
          => /\ watcherPc' = "unlock"
             /\ pacData = hist.lastRead
             /\ pacData' = pacData
             /\ proc' = "running"
     /\ (watcherPc = "unlock" /\ wErr # "nil" /\ watcherPc' # "unlock")
          => /\ watcherPc' = "select"
             /\ closeMu' = "free"
             /\ pacData = hist.lastRead
             /\ pacData' = pacData
             /\ proc' = "running"]_vars

\* C16 witness: the reapply has just failed to start
C16_Witness ==
  watcherPc = "unlock" /\ wErr = "startErr" /\ pacData = hist.lastRead

\* C17: the watcher returns only with the context cancelled, and only from its
\* select (ctx.Done) or its gate check, never on a watch error, a failed read
\* or a failed reapply
C17_ExitOnlyAfterCancel ==
  [][(watcherPc # "done" /\ watcherPc' = "done")
       => /\ cancelled
          /\ watcherPc \in {"select", "check"}
          /\ watchErrs' = watchErrs]_vars

\* C17 witness: the loop outlived a failed read and exited after the cancel
C17_Witness ==
  watcherPc = "done" /\ cancelled /\ hist.reloadCycles > hist.replaces

\* C18 as stated: once the context is cancelled no reload cycle begins
C18_NoCycleAfterCancel ==
  [][cancelled => hist'.reloadCycles = hist.reloadCycles]_vars

\* C18 amended: a reload cycle that begins after the cancel begins with the
\* gate open, while main is waiting for the client's exit or for closeMu
C18_CycleAfterCancelBeforeGate ==
  [][(cancelled /\ hist'.reloadCycles > hist.reloadCycles)
       => (~closed /\ mainPc \in {"sig_wait", "lock"})]_vars

\* C18 witness: a cycle began after the cancel, main still waiting for the client
C18_Witness ==
  hist.lateCycle /\ mainPc = "sig_wait" /\ watcherPc \in InCycle

\* C20: with the watcher back at its select, no event left and no read having
\* failed, ph.pacData is the file's contents
C20_NoLostWrite ==
  (/\ hist.writes >= 1 /\ watcherPc = "select" /\ events = <<>>
   /\ hist.reloadCycles = hist.replaces)
  => pacData = fileData

\* C20 witness: three writes, one of them discarded by the drain, two reloads
C20_Witness ==
  /\ hist.writes = 3 /\ watcherPc = "select" /\ events = <<>>
  /\ hist.debounces = 2 /\ hist.replaces = 2 /\ pacData = fileData

\* C11: under every interleaving of the watcher's replaces and the handler's
\* snapshots, a snapshot is a value the store has held since the snapshot
\* was asked for: the blob in place at that moment (the initial blob or the
\* argument of a replace) or the argument of a replace made since, never a
\* torn value and never an older one
C11_SnapshotConsistent ==
  req.data # "none" => (req.data \in Blobs /\ req.data \in req.fresh)

\* a replace took place between the arrival of the request and its snapshot
C11_Witness ==
  /\ req.pc = "unlock"
  /\ Cardinality(req.fresh) = 2
  /\ req.data = pacData
  /\ hist.replaces >= 1

\* C12: an answered request whose path begins with /pac, with or without a
\* query, got status 200 and a blob that was the stored one during the
\* request; an answered request for any other path got status 404 and no body
C12_PacPathServed ==
  req.pc = "done" =>
    IF HasPrefix(PathOf(req.uri), PacPrefix)
    THEN req.status = 200 /\ req.body \in req.fresh
    ELSE req.status = 404 /\ req.body = "none"

\* C19: once the signal case or the child-exit case of main's select has
\* fired, the gate is eventually closed, the disable command has been
\* invoked and the process has ended
C19_TeardownCompletes ==
  (hist.wake # "none") ~> (proc # "running" /\ closed /\ hist.disableInvoked = 1)

\* C19, the part that concerns the watcher and the gate lock: after the
\* wake-up teardown completes unless the server goroutine's log.Fatalf
\* (line 203) ends the process first
C19_CompletesUnlessServeFatal ==
  (hist.wake # "none") ~>
     ((proc # "running" /\ closed /\ hist.disableInvoked = 1) \/ hist.exitAt = "serve")

====
